---- MODULE Spec2Model ----
(***************************************************************************)
(* Model of gemini-2-5-studio.  Nine specifications share the variables:   *)
(*   Spec, SpecFields  the streaming client streamGeminiChat               *)
(*                     (src/src/lib/gemini.ts, later src/unnamed/part_001) *)
(*   SpecParser        CommandParser (src/unnamed/part_000)                *)
(*   SpecProxy         the proxy function gemini-chat                      *)
(*   SpecChat          ChatInterface inside Layout                         *)
(*   SpecChatStore     the same with the inserts of saveMessage that fail  *)
(*   SpecChatThinking  the same with the callback onThinking               *)
(*   SpecServe         the handler of gemini-chat and the client calling it*)
(*   SpecFiles         the attachments of ChatInterface                    *)
(* Each of them leaves the variables of the others as they are.            *)
(*                                                                         *)
(* The response body is a sequence of bytes.  Every byte is a one-element  *)
(* string.  The bytes of the prefix "data: " and the newline are the real  *)
(* characters; a JSON payload is written with one byte per JSON lexeme:    *)
(*   "{" "}"            the braces of the object                           *)
(*   "T" "M" "K" "S"    the keys "text", "metadata", "thinking",           *)
(*                      "thoughtSummary" (with their colon)                *)
(*   "b" "s"            the non-empty strings "b" and "s"                  *)
(*   "Q"                the empty string ""                                *)
(*   "..."              a string that contains "..."                       *)
(*   "t" "f"            the booleans true and false                        *)
(*   "o"                an object value (the token counts)                 *)
(*   "C3" "A9"          the two UTF-8 bytes of one non-ASCII character,    *)
(*                      which is a non-empty string value once decoded     *)
(***************************************************************************)
EXTENDS Integers, Sequences, FiniteSets, TLC

\* Bound of the model: the number of newline-terminated lines of a response body.
MaxLines == 2

VARIABLES
    pc,        \* position of the async function streamGeminiChat
    stream,    \* the bytes of the response body, as the proxy sends them
    pos,       \* how many bytes of stream the reader has returned so far
    status,    \* response.status, 0 while there is no response
    decoder,   \* bytes the TextDecoder holds back (an unfinished character)
    buffer,    \* the local variable buffer
    aborted,   \* signal.aborted
    thrown,    \* the value the catch block has caught, NotThrown before
    handlers,  \* the optional callbacks the caller has passed in options
    events,    \* the callbacks invoked so far, in order
    requests,  \* how many times fetch has been called
    \* CommandParser
    commands,  \* the Map commands: its entries in insertion order
    prompt,    \* the text parse is called with
    result,    \* what the last call of parse returned
    lastOp,    \* the method of CommandParser that was called last
    \* the proxy function gemini-chat: start(controller) of its ReadableStream
    upstream,         \* the texts of the chunks result.stream yields
    upstreamEnd,      \* how result.stream ends: "ok" or "error"
    responseOutcome,  \* result.response: "usage", "noUsage" or "rejects"
    proxyPc,          \* position of the async function start
    consumed,         \* how many chunks the for await loop has taken
    isThinking,       \* the local variable isThinking
    out,              \* the events enqueued on the controller, in order
    \* ChatInterface, the Layout around it and the tables it writes
    messages,                 \* the state messages: the transcript
    input,                    \* the state input
    isStreaming,              \* the state isStreaming
    currentAssistantMessage,  \* the state currentAssistantMessage
    sessionId,                \* the state sessionId of ChatInterface, 0 for null
    layoutSessionId,          \* the state sessionId of Layout, 0 for null
    abortControllerRef,       \* abortControllerRef.current: 0 for null, else
                              \* the call of handleSend that created it
    sends,                    \* the calls of handleSend: position and locals
    loads,                    \* the session ids of the pending calls of loadSession
    dbSessions,               \* the number of rows of the table sessions
    dbMessages,               \* the rows of the table messages of each session
    nameRequests,             \* how often the function name-chat was invoked
                              \* for each session
    uiIsThinking,             \* the state isThinking of ChatInterface
    thinkingOf,               \* what the response of each call has delivered
                              \* of thinking: "none", "open" (true) or
                              \* "closed" (true, then false)
    \* the proxy function gemini-chat: the handler passed to serve
    reqBody,       \* the request: whether req.json() resolves, and its messages
    apiKey,        \* whether GEMINI_API_KEY is set
    upstreamCall,  \* how chat.sendMessageStream settles: "resolves" or "rejects"
    servePc,       \* position of the handler
    response,      \* the Response the handler has returned
    history,       \* the history given to startChat
    sentParts,     \* the parts given to sendMessageStream
    \* ChatInterface: the attachments
    attachedFiles, \* the state attachedFiles: the size of each file in MB
    renderedFiles  \* attachedFiles as of the last render

\* the variables of streamGeminiChat
clientVars == <<pc, stream, pos, status, decoder, buffer, aborted, thrown, handlers, events, requests>>

\* the variables of CommandParser
parserVars == <<commands, prompt, result, lastOp>>

\* no CommandParser has been constructed
NoParser ==
    /\ commands = <<>>
    /\ prompt = <<>>
    /\ result = [cleanedPrompt |-> <<>>, options |-> <<>>]
    /\ lastOp = "none"

\* the variables of the proxy function
proxyVars == <<upstream, upstreamEnd, responseOutcome, proxyPc, consumed, isThinking, out>>

\* no request has reached the proxy
NoProxy ==
    /\ upstream = <<>>
    /\ upstreamEnd = "ok"
    /\ responseOutcome = "noUsage"
    /\ proxyPc = "idle"
    /\ consumed = 0
    /\ isThinking = FALSE
    /\ out = <<>>

\* the variables of the user interface
chatVars == <<messages, input, isStreaming, currentAssistantMessage, sessionId, layoutSessionId, abortControllerRef, sends, loads, dbSessions, dbMessages, nameRequests, uiIsThinking, thinkingOf>>

\* ChatInterface is not mounted
NoChat ==
    /\ messages = <<>>
    /\ input = <<>>
    /\ isStreaming = FALSE
    /\ currentAssistantMessage = <<>>
    /\ sessionId = 0
    /\ layoutSessionId = 0
    /\ abortControllerRef = 0
    /\ sends = <<>>
    /\ loads = {}
    /\ dbSessions = 0
    /\ dbMessages = <<>>
    /\ nameRequests = <<>>
    /\ uiIsThinking = FALSE
    /\ thinkingOf = <<>>

\* the variables of the handler of the proxy function
serveVars == <<reqBody, apiKey, upstreamCall, servePc, response, history, sentParts>>

\* no Response yet
NoResponse == [status |-> 0, contentType |-> "none"]

\* the contents built from no message
NoContents == <<>>

\* no request has been made of the handler
NoServe ==
    /\ reqBody = [readable |-> TRUE, hasMessages |-> TRUE, messages |-> <<>>]
    /\ apiKey = TRUE
    /\ upstreamCall = "resolves"
    /\ servePc = "idle"
    /\ response = NoResponse
    /\ history = NoContents
    /\ sentParts = <<>>

\* the variables of the attachments
fileVars == <<attachedFiles, renderedFiles>>

\* nothing is attached
NoFiles == attachedFiles = <<>> /\ renderedFiles = <<>>

\* what an invocation of streamGeminiChat leaves alone
outside == <<parserVars, proxyVars, chatVars, serveVars, fileVars>>

OutsideInit == NoParser /\ NoProxy /\ NoChat /\ NoServe /\ NoFiles

vars == <<clientVars, outside>>

--------------------------------------------------------------------------
\* Strings as sequences

NL == "\n"

DataPrefix == <<"d", "a", "t", "a", ":", " ">>

\* String.prototype.startsWith
StartsWith(s, p) == Len(s) >= Len(p) /\ SubSeq(s, 1, Len(p)) = p

\* String.prototype.slice(n)
Slice(s, n) == SubSeq(s, n + 1, Len(s))

\* String.prototype.split("\n"): always at least one element
RECURSIVE Split(_)
Split(s) ==
    IF \E i \in 1..Len(s) : s[i] = NL
    THEN LET i == CHOOSE k \in 1..Len(s) :
                      s[k] = NL /\ \A j \in 1..(k - 1) : s[j] # NL
         IN  <<SubSeq(s, 1, i - 1)>> \o Split(SubSeq(s, i + 1, Len(s)))
    ELSE <<s>>

\* TextDecoder("utf-8"): the characters of bytes[i..], a lead byte at the very
\* end is not decoded (it is held back by decode with stream: true)
RECURSIVE DecodeBytes(_, _)
DecodeBytes(bytes, i) ==
    IF i > Len(bytes) THEN <<>>
    ELSE IF bytes[i] = "C3"
         THEN IF i = Len(bytes) THEN <<>>
              ELSE IF bytes[i + 1] = "A9"
                   THEN <<"U+E9">> \o DecodeBytes(bytes, i + 2)
                   ELSE <<"U+FFFD">> \o DecodeBytes(bytes, i + 1)
         ELSE IF bytes[i] = "A9"
              THEN <<"U+FFFD">> \o DecodeBytes(bytes, i + 1)
              ELSE <<bytes[i]>> \o DecodeBytes(bytes, i + 1)

\* decoder.decode(value, { stream: true }) on a decoder holding back held
Decode(held, value) ==
    LET all == held \o value
    IN  [text |-> DecodeBytes(all, 1),
         held |-> IF all # <<>> /\ all[Len(all)] = "C3" THEN <<"C3">> ELSE <<>>]

--------------------------------------------------------------------------
\* JSON.parse on the lexemes of a payload

JsonKeys == {"T", "M", "K", "S"}

JsonValues == {"b", "s", "Q", "t", "f", "o", "U+E9", "..."}

\* JSON.parse(jsonStr) does not throw
ValidJson(j) ==
    /\ Len(j) >= 2
    /\ j[1] = "{"
    /\ j[Len(j)] = "}"
    /\ Len(j) % 2 = 0
    /\ \A i \in 2..(Len(j) - 1) :
          IF i % 2 = 0 THEN j[i] \in JsonKeys ELSE j[i] \in JsonValues

\* data[key] of the parsed object: the value of the last member named key
Field(j, key) ==
    IF \E i \in 2..(Len(j) - 1) : i % 2 = 0 /\ j[i] = key
    THEN LET i == CHOOSE k \in 2..(Len(j) - 1) :
                      /\ k % 2 = 0 /\ j[k] = key
                      /\ \A m \in (k + 1)..(Len(j) - 1) : ~(m % 2 = 0 /\ j[m] = key)
         IN  j[i + 1]
    ELSE "undefined"

\* the falsy values of JavaScript among the modelled ones
Truthy(v) == v \notin {"undefined", "Q", "f"}

\* Variant of IsBoolean: data.thinking !== undefined
IsNotUndefined(v) == v # "undefined"

\* typeof v === "boolean"
IsBoolean(v) == v \in {"t", "f"}

--------------------------------------------------------------------------
\* Callbacks

Event(cb, arg) == [cb |-> cb, arg |-> arg, isError |-> FALSE]

ErrorEvent(message) == [cb |-> "onError", arg |-> message, isError |-> TRUE]

\* the callbacks GeminiStreamOptions declares optional
OptionalCallbacks == {"onMetadata", "onThinking", "onThoughtSummary"}

\* the callers of the model pass all of them or, as the first revision of
\* the client (which has only onToken, onComplete, onError), none
HandlerSets == {{}, OptionalCallbacks}

\* the body of the try block of one line: the callbacks of one parsed payload
PayloadEvents(j) ==
    (IF Truthy(Field(j, "T")) THEN <<Event("onToken", Field(j, "T"))>> ELSE <<>>)
    \o (IF Truthy(Field(j, "M")) /\ "onMetadata" \in handlers
        THEN <<Event("onMetadata", Field(j, "M"))>> ELSE <<>>)
    \o (IF IsBoolean(Field(j, "K")) /\ "onThinking" \in handlers
        THEN <<Event("onThinking", Field(j, "K"))>> ELSE <<>>)
    \o (IF Truthy(Field(j, "S")) /\ "onThoughtSummary" \in handlers
        THEN <<Event("onThoughtSummary", Field(j, "S"))>> ELSE <<>>)

\* Variant of JsonStrOf: the space after "data:" is optional, as in the SSE
\* format itself.
JsonStrOfLoose(line) ==
    IF StartsWith(line, DataPrefix) THEN Slice(line, 6)
    ELSE IF StartsWith(line, <<"d", "a", "t", "a", ":">>) THEN Slice(line, 5)
    ELSE <<>>

\* the payload of a line: line.slice(6) of a line that starts with "data: ",
\* empty for a line the loop skips
JsonStrOf(line) ==
    IF StartsWith(line, DataPrefix) THEN Slice(line, 6) ELSE <<>>

\* Variant of ProcessLine: the inner catch reports the parse error through
\* onError instead of logging it.
ProcessLineReportsParseError(line) ==
    LET jsonStr == JsonStrOf(line)
    IN  IF jsonStr = <<>> THEN <<>>
        ELSE IF ValidJson(jsonStr) THEN PayloadEvents(jsonStr)
        ELSE <<[cb |-> "onError", arg |-> "SyntaxError", isError |-> TRUE]>>

\* one iteration of the for loop over lines
ProcessLine(line) ==
    LET jsonStr == JsonStrOf(line)
    IN  IF jsonStr = <<>> THEN <<>>
        ELSE IF ValidJson(jsonStr) THEN PayloadEvents(jsonStr)
        ELSE <<>>

\* Variant of ProcessLines: break instead of continue at a line that is not a
\* data line.
RECURSIVE ProcessLinesBreak(_)
ProcessLinesBreak(lines) ==
    IF lines = <<>> THEN <<>>
    ELSE IF ~StartsWith(Head(lines), DataPrefix) THEN <<>>
    ELSE ProcessLine(Head(lines)) \o ProcessLinesBreak(Tail(lines))

RECURSIVE ProcessLines(_)
ProcessLines(lines) ==
    IF lines = <<>> THEN <<>>
    ELSE ProcessLine(Head(lines)) \o ProcessLines(Tail(lines))

\* Variant of Catch: the caught value is handed to onError as it is.
CatchPassesRaw(error) ==
    [cb |-> "onError", arg |-> error.message, isError |-> error.isError]

\* the catch block of streamGeminiChat
Catch(error) ==
    IF error.isError
    THEN ErrorEvent(error.message)
    ELSE ErrorEvent("Unknown error occurred")

--------------------------------------------------------------------------
\* The response bodies the model draws from

LineKinds == {"tokU", "full", "badJson", "blank", "noSpace"}

LineOf(kind) ==
    CASE kind = "tokU"    -> DataPrefix \o <<"{", "T", "C3", "A9", "}">>
      [] kind = "full"    -> DataPrefix \o <<"{", "T", "b", "M", "o", "K", "f", "S", "s", "}">>
      [] kind = "badJson" -> DataPrefix \o <<"{", "T", "b">>
      [] kind = "blank"   -> <<>>
      [] kind = "noSpace" -> <<"d", "a", "t", "a", ":", "{", "T", "b", "}">>
      [] kind = "thinkT"  -> DataPrefix \o <<"{", "K", "t", "}">>
      [] kind = "thinkF"  -> DataPrefix \o <<"{", "T", "Q", "K", "f", "}">>
      [] kind = "odd"     -> DataPrefix \o <<"{", "T", "b", "K", "s", "}">>

RECURSIVE BodyOf(_)
BodyOf(kinds) ==
    IF kinds = <<>> THEN <<>>
    ELSE LineOf(Head(kinds)) \o <<NL>> \o BodyOf(Tail(kinds))

\* what may follow the last newline: nothing, or a data line cut off before
\* its newline
Tails == {<<>>, LineOf("tokU")}

Streams ==
    {BodyOf(ks) \o t : ks \in UNION {[1..n -> LineKinds] : n \in 0..MaxLines},
                       t \in Tails}

\* the kinds of line that tell how the fields thinking and text are read
FieldKinds == {"thinkT", "thinkF", "odd"}

FieldStreams ==
    {BodyOf(ks) \o t : ks \in UNION {[1..n -> FieldKinds] : n \in 0..MaxLines},
                       t \in Tails}

\* the catch block has not run
NotThrown == [isError |-> FALSE, message |-> "nothing thrown"]

\* new Error(message)
NewError(message) == [isError |-> TRUE, message |-> message]

\* values a rejected fetch or read may throw
AbortError == [isError |-> TRUE, message |-> "AbortError"]

ThrownValues == {[isError |-> TRUE, message |-> "Failed to fetch"],
                 [isError |-> FALSE, message |-> "not an Error"]}

Statuses == {200, 404, 500}

HttpErrorMessage(st) == "HTTP error! status: " \o ToString(st)

--------------------------------------------------------------------------
\* The state machine of one invocation

Init ==
    /\ pc = "idle"
    /\ stream \in Streams
    /\ pos = 0
    /\ status = 0
    /\ decoder = <<>>
    /\ buffer = <<>>
    /\ aborted = FALSE
    /\ thrown = NotThrown
    /\ handlers \in HandlerSets
    /\ events = <<>>
    /\ requests = 0
    /\ OutsideInit

\* the same invocation on a body of FieldStreams
InitFields ==
    /\ pc = "idle"
    /\ stream \in FieldStreams
    /\ pos = 0
    /\ status = 0
    /\ decoder = <<>>
    /\ buffer = <<>>
    /\ aborted = FALSE
    /\ thrown = NotThrown
    /\ handlers \in HandlerSets
    /\ events = <<>>
    /\ requests = 0
    /\ OutsideInit

\* streamGeminiChat is called: fetch is issued and awaited
Start ==
    /\ pc = "idle"
    /\ pc' = "requesting"
    /\ requests' = requests + 1
    /\ UNCHANGED <<stream, pos, status, decoder, buffer, aborted, thrown, events, handlers, outside>>

\* the caller triggers the signal while the function is suspended at an await
Abort ==
    /\ pc \in {"requesting", "streaming"}
    /\ ~aborted
    /\ aborted' = TRUE
    /\ UNCHANGED <<pc, stream, pos, status, decoder, buffer, thrown, events, handlers, requests, outside>>

\* Variant of Throw: after reporting the failure the request is sent again.
ThrowThenRetry(error) ==
    /\ pc' = "requesting"
    /\ thrown' = error
    /\ events' = Append(events, Catch(error))
    /\ requests' = requests + 1

\* a throw inside the try block: the catch block runs and the function returns
Throw(error) ==
    /\ pc' = "errored"
    /\ thrown' = error
    /\ events' = Append(events, Catch(error))
    /\ UNCHANGED requests

\* Variant of FetchResolve: response.ok is not checked.
FetchResolveNoOkCheck(st, hasBody) ==
    /\ pc = "requesting"
    /\ ~aborted
    /\ status' = st
    /\ IF ~hasBody
       THEN Throw(NewError("No response body"))
       ELSE /\ pc' = "streaming"
            /\ UNCHANGED <<thrown, events, handlers, requests, outside>>
    /\ UNCHANGED <<stream, pos, decoder, buffer, aborted, handlers, outside>>

\* fetch resolves with a response: the checks up to the first reader.read()
FetchResolve(st, hasBody) ==
    /\ pc = "requesting"
    /\ ~aborted
    /\ status' = st
    /\ IF st \notin 200..299
       THEN Throw(NewError(HttpErrorMessage(st)))
       ELSE IF ~hasBody
            THEN Throw(NewError("No response body"))
            ELSE /\ pc' = "streaming"
                 /\ UNCHANGED <<thrown, events, handlers, requests, outside>>
    /\ UNCHANGED <<stream, pos, decoder, buffer, aborted, handlers, outside>>

\* fetch rejects: with the AbortError once the signal is triggered
FetchReject(error) ==
    /\ pc = "requesting"
    /\ aborted => error = AbortError
    /\ Throw(error)
    /\ UNCHANGED <<stream, pos, status, decoder, buffer, aborted, handlers, outside>>

\* Variant of LoopBody: the element after the last newline is not kept.
LoopBodyDropsPartial(buf, held, value) ==
    LET d     == Decode(held, value)
        lines == Split(buf \o d.text)
    IN  [held   |-> d.held,
         buffer |-> <<>>,
         events |-> ProcessLines(SubSeq(lines, 1, Len(lines) - 1))]

\* Variant of LoopBody: the buffer keeps the lines that were just processed.
LoopBodyKeepsWholeBuffer(buf, held, value) ==
    LET d     == Decode(held, value)
        lines == Split(buf \o d.text)
    IN  [held   |-> d.held,
         buffer |-> buf \o d.text,
         events |-> ProcessLines(SubSeq(lines, 1, Len(lines) - 1))]

\* the body of the while loop for one chunk: decode, append, split, keep the
\* last element as the new buffer, run the for loop over the others
LoopBody(buf, held, value) ==
    LET d     == Decode(held, value)
        lines == Split(buf \o d.text)
    IN  [held   |-> d.held,
         buffer |-> lines[Len(lines)],
         events |-> ProcessLines(SubSeq(lines, 1, Len(lines) - 1))]

\* Variant of ReadChunk: fetch was called without the signal, so that the body
\* keeps arriving after the caller has triggered it.
ReadChunkWithoutSignal(n) ==
    /\ pc = "streaming"
    /\ \E r \in {LoopBody(buffer, decoder, SubSeq(stream, pos + 1, pos + n))} :
          /\ decoder' = r.held
          /\ buffer' = r.buffer
          /\ events' = events \o r.events
    /\ pos' = pos + n
    /\ UNCHANGED <<pc, stream, status, aborted, thrown, handlers, requests, outside>>

\* reader.read() resolves with the next n bytes: one iteration of the while loop
ReadChunk(n) ==
    /\ pc = "streaming"
    /\ ~aborted
    /\ \E r \in {LoopBody(buffer, decoder, SubSeq(stream, pos + 1, pos + n))} :
          /\ decoder' = r.held
          /\ buffer' = r.buffer
          /\ events' = events \o r.events
    /\ pos' = pos + n
    /\ UNCHANGED <<pc, stream, status, aborted, thrown, handlers, requests, outside>>

\* Variant of ReadDone: no break after onComplete, the loop reads again.
ReadDoneNoBreak ==
    /\ pc = "streaming"
    /\ ~aborted
    /\ pos = Len(stream)
    /\ pc' = "streaming"
    /\ events' = Append(events, Event("onComplete", "void"))
    /\ UNCHANGED <<stream, pos, status, decoder, buffer, aborted, thrown, handlers, requests, outside>>

\* Variant of ReadDone: what is left in the buffer is processed as a last line.
ReadDoneFlushes ==
    /\ pc = "streaming"
    /\ ~aborted
    /\ pos = Len(stream)
    /\ pc' = "completed"
    /\ events' = events \o ProcessLine(buffer) \o <<Event("onComplete", "void")>>
    /\ UNCHANGED <<stream, pos, status, decoder, buffer, aborted, thrown, handlers, requests, outside>>

\* reader.read() resolves with done: onComplete, break
ReadDone ==
    /\ pc = "streaming"
    /\ ~aborted
    /\ pos = Len(stream)
    /\ pc' = "completed"
    /\ events' = Append(events, Event("onComplete", "void"))
    /\ UNCHANGED <<stream, pos, status, decoder, buffer, aborted, thrown, handlers, requests, outside>>

\* reader.read() rejects: with the AbortError once the signal is triggered
ReadReject(error) ==
    /\ pc = "streaming"
    /\ aborted => error = AbortError
    /\ Throw(error)
    /\ UNCHANGED <<stream, pos, status, decoder, buffer, aborted, handlers, outside>>

Next ==
    \/ Start
    \/ Abort
    \/ \E st \in Statuses, hasBody \in BOOLEAN : FetchResolve(st, hasBody)
    \/ \E error \in ThrownValues \cup {AbortError} : FetchReject(error)
    \/ \E n \in 1..(Len(stream) - pos) : ReadChunk(n)
    \/ ReadDone
    \/ \E error \in ThrownValues \cup {AbortError} : ReadReject(error)

Spec == Init /\ [][Next]_vars

SpecFields == InitFields /\ [][Next]_vars

--------------------------------------------------------------------------
\* CommandParser (src/unnamed/part_000)

\* Bound of the model: the number of pieces a prompt is put together from.
MaxPieces == 3

Web == <<"/", "w", "e", "b">>

PromptPieces ==
    {Web, <<"/", "W", "E", "B">>, <<"/", "w">>, <<"e", "b">>, <<"/", "t", "h">>,
     <<" ">>, <<"x">>}

RECURSIVE Concat(_)
Concat(pieces) ==
    IF pieces = <<>> THEN <<>> ELSE Head(pieces) \o Concat(Tail(pieces))

Prompts == {Concat(ps) : ps \in UNION {[1..n -> PromptPieces] : n \in 0..MaxPieces}}

\* String.prototype.includes: t occurs in s, case-sensitively
Includes(s, t) ==
    \E i \in 1..(Len(s) - Len(t) + 1) : SubSeq(s, i, i + Len(t) - 1) = t

\* the i flag of the regular expression: characters compare without case
Lower(c) ==
    CASE c = "W" -> "w"
      [] c = "E" -> "e"
      [] c = "B" -> "b"
      [] OTHER   -> c

\* the literal of the pattern matches s at position i
LiteralAt(s, i, t) ==
    /\ i + Len(t) - 1 <= Len(s)
    /\ \A k \in 1..Len(t) : Lower(s[i + k - 1]) = Lower(t[k])

\* \s* from position i: the position after the run of whitespace
RECURSIVE SkipSpaces(_, _)
SkipSpaces(s, i) ==
    IF i <= Len(s) /\ s[i] = " " THEN SkipSpaces(s, i + 1) ELSE i

\* prompt.replace(/\s*<t>\s*/gi, ''): one scan from the left, every match
\* (the literal with the whitespace around it) is left out, from position i on
RECURSIVE ReplaceAll(_, _, _)
ReplaceAll(s, i, t) ==
    IF i > Len(s) THEN <<>>
    ELSE LET j == SkipSpaces(s, i)
         IN  IF LiteralAt(s, j, t)
             THEN ReplaceAll(s, SkipSpaces(s, j + Len(t)), t)
             ELSE <<s[i]>> \o ReplaceAll(s, i + 1, t)

\* String.prototype.trim
RECURSIVE Trim(_)
Trim(s) ==
    IF s = <<>> THEN s
    ELSE IF Head(s) = " " THEN Trim(Tail(s))
    ELSE IF s[Len(s)] = " " THEN Trim(SubSeq(s, 1, Len(s) - 1))
    ELSE s

\* the empty object {}
EmptyOptions == <<>>

\* one key of an options object
Option(key, value) == [k \in {key} |-> value]

\* Variant of Merge: a key that is already set keeps its value.
MergeKeepsEarlier(a, b) ==
    [k \in DOMAIN a \cup DOMAIN b |-> IF k \in DOMAIN a THEN a[k] ELSE b[k]]

\* { ...a, ...b }
Merge(a, b) ==
    [k \in DOMAIN a \cup DOMAIN b |-> IF k \in DOMAIN b THEN b[k] ELSE a[k]]

\* a command whose execute follows the default command: it removes its
\* pattern from the prompt it is given, trims, and returns its options
Command(name, pattern, options) ==
    [name |-> name, pattern |-> pattern, options |-> options]

\* command.execute(prompt)
Execute(command, p) ==
    [cleanedPrompt |-> Trim(ReplaceAll(p, 1, command.pattern)),
     options       |-> command.options]

\* the entry registerDefaultCommands sets
DefaultCommand ==
    [trigger |-> Web, command |-> Command("web", Web, Option("useWebSearch", TRUE))]

\* the entries callers register with registerCommand
RegisteredCommands ==
    {[trigger |-> Web,
      command |-> Command("web-off", Web, Option("useWebSearch", FALSE))],
     [trigger |-> <<"/", "t", "h">>,
      command |-> Command("think", <<"/", "t", "h">>, Option("thinking", TRUE))],
     [trigger |-> <<"/", "t">>,
      command |-> Command("terse", <<"/", "t">>,
                          Merge(Option("thinking", FALSE), Option("terse", TRUE)))]}

\* Map.prototype.set: an existing key keeps its place, a new key goes last
MapSet(entries, entry) ==
    IF \E i \in 1..Len(entries) : entries[i].trigger = entry.trigger
    THEN [i \in 1..Len(entries) |->
             IF entries[i].trigger = entry.trigger THEN entry ELSE entries[i]]
    ELSE Append(entries, entry)

\* the for loop of parse from entry i on, res being the result so far
RECURSIVE ParseFrom(_, _, _, _)
ParseFrom(entries, i, p, res) ==
    IF i > Len(entries) THEN res
    ELSE IF Includes(p, entries[i].trigger)
         THEN LET commandResult == Execute(entries[i].command, p)
              IN  ParseFrom(entries, i + 1, p,
                      [cleanedPrompt |-> commandResult.cleanedPrompt,
                       options       |-> Merge(res.options, commandResult.options)])
         ELSE ParseFrom(entries, i + 1, p, res)

\* no invocation of streamGeminiChat
NoClient ==
    /\ pc = "idle"
    /\ stream = <<>>
    /\ pos = 0
    /\ status = 0
    /\ decoder = <<>>
    /\ buffer = <<>>
    /\ aborted = FALSE
    /\ thrown = NotThrown
    /\ handlers = {}
    /\ events = <<>>
    /\ requests = 0

\* what CommandParser leaves alone
outsideParser == <<clientVars, proxyVars, chatVars, serveVars, fileVars>>

OutsideParserInit == NoClient /\ NoProxy /\ NoChat /\ NoServe /\ NoFiles

\* new CommandParser(): the constructor registers the default command
InitParser ==
    /\ commands = <<DefaultCommand>>
    /\ prompt \in Prompts
    /\ result = [cleanedPrompt |-> <<>>, options |-> EmptyOptions]
    /\ lastOp = "none"
    /\ OutsideParserInit

\* registerCommand(trigger, command)
RegisterCommand(entry) ==
    /\ commands' = MapSet(commands, entry)
    /\ lastOp' = "registerCommand"
    /\ UNCHANGED <<prompt, result, outsideParser>>

\* Variant of Parse: a command that has matched is taken out of the Map.
ParseConsumesCommands(p) ==
    /\ result' = ParseFrom(commands, 1, p, [cleanedPrompt |-> p, options |-> EmptyOptions])
    /\ lastOp' = "parse"
    /\ commands' = SelectSeq(commands, LAMBDA entry : ~Includes(p, entry.trigger))
    /\ UNCHANGED <<prompt, outsideParser>>

\* parse(prompt)
Parse(p) ==
    /\ result' = ParseFrom(commands, 1, p, [cleanedPrompt |-> p, options |-> EmptyOptions])
    /\ lastOp' = "parse"
    /\ UNCHANGED <<commands, prompt, outsideParser>>

NextParser ==
    \/ \E entry \in RegisteredCommands : RegisterCommand(entry)
    \/ Parse(prompt)

SpecParser == InitParser /\ [][NextParser]_vars

--------------------------------------------------------------------------
\* The proxy function gemini-chat (src/supabase/functions/gemini-chat/index.ts)

\* Bound of the model: the number of chunks the upstream stream yields.
MaxChunks == 3

\* chunk.text(): empty, a text without "...", a text that contains "..."
ChunkTexts == {"Q", "b", "..."}

Upstreams == UNION {[1..n -> ChunkTexts] : n \in 0..MaxChunks}

\* the events the proxy writes
ThinkingEvent(value) == [kind |-> "thinking", value |-> value]

TextEvent(text) == [kind |-> "text", value |-> text]

MetadataEvent == [kind |-> "metadata", value |-> "o"]

\* `data: ${JSON.stringify(event)}\n\n` as bytes
EncodeEvent(e) ==
    DataPrefix
    \o <<"{", (CASE e.kind = "thinking" -> "K"
                 [] e.kind = "text"     -> "T"
                 [] e.kind = "metadata" -> "M"), e.value, "}">>
    \o <<NL, NL>>

\* the client that reads the response passes every optional callback
ClientOfProxy ==
    /\ pc = "idle"
    /\ stream = <<>>
    /\ pos = 0
    /\ status = 0
    /\ decoder = <<>>
    /\ buffer = <<>>
    /\ aborted = FALSE
    /\ thrown = NotThrown
    /\ handlers = OptionalCallbacks
    /\ events = <<>>
    /\ requests = 0

\* what the proxy function leaves alone
outsideProxy == <<clientVars, parserVars, chatVars, serveVars, fileVars>>

OutsideProxyInit == ClientOfProxy /\ NoParser /\ NoChat /\ NoServe /\ NoFiles

\* sendMessageStream has resolved and start(controller) is called
InitProxy ==
    /\ upstream \in Upstreams
    /\ upstreamEnd \in {"ok", "error"}
    /\ responseOutcome \in {"usage", "noUsage", "rejects"}
    /\ proxyPc = "iterating"
    /\ consumed = 0
    /\ isThinking = FALSE
    /\ out = <<>>
    /\ OutsideProxyInit

\* Variant of ProxyChunk: the usage so far is reported with every text.
ProxyChunkWithUsage ==
    /\ proxyPc = "iterating"
    /\ consumed < Len(upstream)
    /\ LET text == upstream[consumed + 1]
       IN  /\ out' = out \o (IF text # "Q" THEN <<TextEvent(text), MetadataEvent>> ELSE <<>>)
           /\ UNCHANGED isThinking
    /\ consumed' = consumed + 1
    /\ UNCHANGED <<upstream, upstreamEnd, responseOutcome, proxyPc, outsideProxy>>

\* one iteration of for await (const chunk of result.stream)
ProxyChunk ==
    /\ proxyPc = "iterating"
    /\ consumed < Len(upstream)
    /\ LET text  == upstream[consumed + 1]
           start == text = "..." /\ ~isThinking
       IN  /\ isThinking' = (isThinking \/ start)
           /\ out' = out \o (IF start THEN <<ThinkingEvent("t")>> ELSE <<>>)
                         \o (IF text # "Q" THEN <<TextEvent(text)>> ELSE <<>>)
    /\ consumed' = consumed + 1
    /\ UNCHANGED <<upstream, upstreamEnd, responseOutcome, proxyPc, outsideProxy>>

\* result.stream throws: catch, controller.error(error)
ProxyStreamError ==
    /\ proxyPc = "iterating"
    /\ consumed = Len(upstream)
    /\ upstreamEnd = "error"
    /\ proxyPc' = "errored"
    /\ UNCHANGED <<upstream, upstreamEnd, responseOutcome, consumed, isThinking, out, outsideProxy>>

\* result.stream is exhausted: the end of thinking, then await result.response
ProxyLoopEnd ==
    /\ proxyPc = "iterating"
    /\ consumed = Len(upstream)
    /\ upstreamEnd = "ok"
    /\ out' = out \o (IF isThinking THEN <<ThinkingEvent("f")>> ELSE <<>>)
    /\ proxyPc' = "awaitingResponse"
    /\ UNCHANGED <<upstream, upstreamEnd, responseOutcome, consumed, isThinking, outsideProxy>>

\* result.response settles: the metadata event and controller.close(), or
\* controller.error(error)
ProxyResponse ==
    /\ proxyPc = "awaitingResponse"
    /\ IF responseOutcome = "rejects"
       THEN /\ proxyPc' = "errored"
            /\ UNCHANGED out
       ELSE /\ proxyPc' = "closed"
            /\ out' = out \o (IF responseOutcome = "usage" THEN <<MetadataEvent>> ELSE <<>>)
    /\ UNCHANGED <<upstream, upstreamEnd, responseOutcome, consumed, isThinking, outsideProxy>>

NextProxy ==
    \/ ProxyChunk
    \/ ProxyStreamError
    \/ ProxyLoopEnd
    \/ ProxyResponse

SpecProxy == InitProxy /\ [][NextProxy]_vars

--------------------------------------------------------------------------
\* ChatInterface (src/src/components/ChatInterface.tsx) inside Layout
\* (src/src/components/Layout.tsx)
\*
\* One action is one task of the event loop: an event handler, or the part of
\* an async function between two awaits, with the state updates it makes.
\* streamGeminiChat is abstracted to what the handlers see of it: onToken any
\* number of times, then onComplete or onError once.

\* Bounds of the model: the calls of handleSend, and the tokens of one response.
MaxSends == 2

MaxTokens == 1

\* what the user types
Texts == {<<"p">>}

Tokens == {"a"}

UserMessage(content) == [role |-> "user", content |-> content]

AssistantMessage(content) == [role |-> "assistant", content |-> content]

\* a call of handleSend that has not been made
NotCalled ==
    [pc |-> "notCalled", userContent |-> <<>>, isFirstMessage |-> FALSE,
     currentSessionId |-> 0, assistantResponse |-> <<>>]

\* a call of handleSend that has returned
Returned ==
    [pc |-> "returned", userContent |-> <<>>, isFirstMessage |-> FALSE,
     currentSessionId |-> 0, assistantResponse |-> <<>>]

\* what the user interface leaves alone
outsideChat == <<clientVars, parserVars, proxyVars, serveVars, fileVars>>

\* ChatInterface is mounted by Layout with no session selected
InitChat ==
    /\ messages = <<>>
    /\ input = <<>>
    /\ isStreaming = FALSE
    /\ currentAssistantMessage = <<>>
    /\ sessionId = 0
    /\ layoutSessionId = 0
    /\ abortControllerRef = 0
    /\ sends = [i \in 1..MaxSends |-> NotCalled]
    /\ loads = {}
    /\ dbSessions = 0
    /\ dbMessages = [s \in 1..MaxSends |-> <<>>]
    /\ nameRequests = [s \in 1..MaxSends |-> 0]
    /\ uiIsThinking = FALSE
    /\ thinkingOf = [i \in 1..MaxSends |-> "none"]
    /\ NoClient /\ NoParser /\ NoProxy /\ NoServe /\ NoFiles

\* onChange of the textarea: setInput
Type(text) ==
    /\ input # text
    /\ input' = text
    /\ UNCHANGED <<messages, isStreaming, currentAssistantMessage, sessionId, layoutSessionId, abortControllerRef, sends, loads, dbSessions, dbMessages, nameRequests, uiIsThinking, thinkingOf, outsideChat>>

\* handleSend from the creation of userMessage to await saveMessage, for call i
\* with session id sid; first tells whether messages of its closure is empty
AppendUserMessage(i, sid, content, first) ==
    /\ messages' = Append(messages, UserMessage(content))
    /\ input' = <<>>
    /\ isStreaming' = TRUE
    /\ currentAssistantMessage' = <<>>
    /\ sends' = [sends EXCEPT ![i] = [pc |-> "savingUser", userContent |-> content,
                                      isFirstMessage |-> first,
                                      currentSessionId |-> sid,
                                      assistantResponse |-> <<>>]]

\* handleSend is called (the i-th call): up to its first await
HandleSend(i) ==
    /\ sends[i].pc = "notCalled"
    /\ \A j \in 1..(i - 1) : sends[j].pc # "notCalled"
    /\ input # <<>> /\ ~isStreaming
    /\ IF sessionId = 0
       THEN /\ sends' = [sends EXCEPT ![i] = [pc |-> "creatingSession", userContent |-> input,
                                              isFirstMessage |-> messages = <<>>,
                                              currentSessionId |-> 0,
                                              assistantResponse |-> <<>>]]
            /\ UNCHANGED <<messages, input, isStreaming, currentAssistantMessage>>
       ELSE AppendUserMessage(i, sessionId, input, messages = <<>>)
    /\ UNCHANGED <<sessionId, layoutSessionId, abortControllerRef, loads, dbSessions, dbMessages, nameRequests, uiIsThinking, thinkingOf, outsideChat>>

\* call i is the first of the calls that wait for createSession; these calls
\* have the same closure (the input text, no session, an empty transcript), so
\* they are taken to resume in the order they were made
FirstCreating(i) ==
    /\ sends[i].pc = "creatingSession"
    /\ \A j \in 1..(i - 1) : sends[j].pc # "creatingSession"

\* await createSession() returns an id: setSessionId, onSessionCreated (Layout
\* sets its sessionId, the effect of ChatInterface calls loadSession), and
\* handleSend goes on to await saveMessage
CreateSessionResolve(i) ==
    /\ FirstCreating(i)
    /\ dbSessions' = dbSessions + 1
    /\ sessionId' = dbSessions + 1
    /\ layoutSessionId' = dbSessions + 1
    /\ loads' = loads \cup {dbSessions + 1}
    /\ AppendUserMessage(i, dbSessions + 1, sends[i].userContent, sends[i].isFirstMessage)
    /\ UNCHANGED <<abortControllerRef, dbMessages, nameRequests, uiIsThinking, thinkingOf, outsideChat>>

\* a variant of CreateSessionFail that clears the input, as a send does
CreateSessionFailClearsInput(i) ==
    /\ FirstCreating(i)
    /\ sends' = [sends EXCEPT ![i] = Returned]
    /\ input' = <<>>
    /\ UNCHANGED <<messages, isStreaming, currentAssistantMessage, sessionId, layoutSessionId, abortControllerRef, loads, dbSessions, dbMessages, nameRequests, uiIsThinking, thinkingOf, outsideChat>>

\* await createSession() returns null: handleSend returns
CreateSessionFail(i) ==
    /\ FirstCreating(i)
    /\ sends' = [sends EXCEPT ![i] = Returned]
    /\ UNCHANGED <<messages, input, isStreaming, currentAssistantMessage, sessionId, layoutSessionId, abortControllerRef, loads, dbSessions, dbMessages, nameRequests, uiIsThinking, thinkingOf, outsideChat>>

\* await saveMessage(user) returns, the row inserted: the controller is
\* created and streamGeminiChat is called
SaveUserResolve(i) ==
    /\ sends[i].pc = "savingUser"
    /\ dbMessages' = [dbMessages EXCEPT ![sends[i].currentSessionId] =
                         Append(@, UserMessage(sends[i].userContent))]
    /\ abortControllerRef' = i
    /\ sends' = [sends EXCEPT ![i].pc = "streaming"]
    /\ UNCHANGED <<messages, input, isStreaming, currentAssistantMessage, sessionId, layoutSessionId, loads, dbSessions, nameRequests, uiIsThinking, thinkingOf, outsideChat>>

\* onToken of call i
OnToken(i, token) ==
    /\ sends[i].pc = "streaming"
    /\ Len(sends[i].assistantResponse) < MaxTokens
    /\ sends' = [sends EXCEPT ![i].assistantResponse = Append(@, token)]
    /\ currentAssistantMessage' = Append(sends[i].assistantResponse, token)
    /\ UNCHANGED <<messages, input, isStreaming, sessionId, layoutSessionId, abortControllerRef, loads, dbSessions, dbMessages, nameRequests, uiIsThinking, thinkingOf, outsideChat>>

\* onComplete of call i, up to await saveMessage; the response has ended
\* normally, and such a response that has delivered thinking: true has
\* delivered thinking: false after it
OnComplete(i) ==
    /\ sends[i].pc = "streaming"
    /\ thinkingOf[i] # "open"
    /\ messages' = Append(messages, AssistantMessage(sends[i].assistantResponse))
    /\ currentAssistantMessage' = <<>>
    /\ isStreaming' = FALSE
    /\ abortControllerRef' = 0
    /\ sends' = [sends EXCEPT ![i].pc = "savingAssistant"]
    /\ UNCHANGED <<input, sessionId, layoutSessionId, loads, dbSessions, dbMessages, nameRequests, uiIsThinking, thinkingOf, outsideChat>>

\* await saveMessage(user) returns, the insert failed and the error logged:
\* handleSend goes on as after an insert that worked
SaveUserFail(i) ==
    /\ sends[i].pc = "savingUser"
    /\ abortControllerRef' = i
    /\ sends' = [sends EXCEPT ![i].pc = "streaming"]
    /\ UNCHANGED <<messages, input, isStreaming, currentAssistantMessage, sessionId, layoutSessionId, loads, dbSessions, dbMessages, nameRequests, uiIsThinking, thinkingOf, outsideChat>>

\* onComplete of call i after await saveMessage: generateChatName is called
\* if isFirstMessage, and the function name-chat is invoked
AfterSaveAssistant(i) ==
    /\ nameRequests' = IF sends[i].isFirstMessage
                       THEN [nameRequests EXCEPT ![sends[i].currentSessionId] = @ + 1]
                       ELSE nameRequests
    /\ sends' = [sends EXCEPT ![i] = Returned]

\* await saveMessage(assistant) returns, the row inserted
SaveAssistantResolve(i) ==
    /\ sends[i].pc = "savingAssistant"
    /\ dbMessages' = [dbMessages EXCEPT ![sends[i].currentSessionId] =
                         Append(@, AssistantMessage(sends[i].assistantResponse))]
    /\ AfterSaveAssistant(i)
    /\ UNCHANGED <<messages, input, isStreaming, currentAssistantMessage, sessionId, layoutSessionId, abortControllerRef, loads, dbSessions, uiIsThinking, thinkingOf, outsideChat>>

\* await saveMessage(assistant) returns, the insert failed and the error logged
SaveAssistantFail(i) ==
    /\ sends[i].pc = "savingAssistant"
    /\ AfterSaveAssistant(i)
    /\ UNCHANGED <<messages, input, isStreaming, currentAssistantMessage, sessionId, layoutSessionId, abortControllerRef, loads, dbSessions, dbMessages, uiIsThinking, thinkingOf, outsideChat>>

\* onThinking of call i: setIsThinking(thinking); the proxy sends true at most
\* once in a response, and false only after it
OnThinking(i, thinking) ==
    /\ sends[i].pc = "streaming"
    /\ thinkingOf[i] = IF thinking THEN "none" ELSE "open"
    /\ thinkingOf' = [thinkingOf EXCEPT ![i] = IF thinking THEN "open" ELSE "closed"]
    /\ uiIsThinking' = thinking
    /\ UNCHANGED <<messages, input, isStreaming, currentAssistantMessage, sessionId, layoutSessionId, abortControllerRef, sends, loads, dbSessions, dbMessages, nameRequests, outsideChat>>

\* the state updates of onError
OnErrorUpdates ==
    /\ isStreaming' = FALSE
    /\ currentAssistantMessage' = <<>>
    /\ abortControllerRef' = 0

\* onError of call i after a failure of the request or of the stream
OnError(i) ==
    /\ sends[i].pc = "streaming"
    /\ OnErrorUpdates
    /\ sends' = [sends EXCEPT ![i] = Returned]
    /\ UNCHANGED <<messages, input, sessionId, layoutSessionId, loads, dbSessions, dbMessages, nameRequests, uiIsThinking, thinkingOf, outsideChat>>

\* handleStop with a controller in the ref: abort; the pending fetch or read
\* of the call that owns the controller rejects and its onError runs before
\* any other task
HandleStop ==
    /\ abortControllerRef # 0
    /\ OnErrorUpdates
    /\ sends' = [sends EXCEPT ![abortControllerRef] = Returned]
    /\ UNCHANGED <<messages, input, sessionId, layoutSessionId, loads, dbSessions, dbMessages, nameRequests, uiIsThinking, thinkingOf, outsideChat>>

\* loadSession(s) resumes with the rows the select has found, which are the
\* first n rows of the session (the select was sent when the session had none
\* and rows are only added): setMessages(data.map(...))
LoadApply(s, n) ==
    /\ s \in loads
    /\ n <= Len(dbMessages[s])
    /\ messages' = SubSeq(dbMessages[s], 1, n)
    /\ loads' = loads \ {s}
    /\ UNCHANGED <<input, isStreaming, currentAssistantMessage, sessionId, layoutSessionId, abortControllerRef, sends, dbSessions, dbMessages, nameRequests, uiIsThinking, thinkingOf, outsideChat>>

NextChat ==
    \/ \E text \in Texts : Type(text)
    \/ \E i \in 1..MaxSends : HandleSend(i)
    \/ \E i \in 1..MaxSends : CreateSessionResolve(i)
    \/ \E i \in 1..MaxSends : CreateSessionFail(i)
    \/ \E i \in 1..MaxSends : SaveUserResolve(i)
    \/ \E i \in 1..MaxSends, token \in Tokens : OnToken(i, token)
    \/ \E i \in 1..MaxSends : OnComplete(i)
    \/ \E i \in 1..MaxSends : SaveAssistantResolve(i)
    \/ \E i \in 1..MaxSends : OnError(i)
    \/ HandleStop
    \/ \E s \in 1..MaxSends, n \in 0..(2 * MaxSends) : LoadApply(s, n)

SpecChat == InitChat /\ [][NextChat]_vars

\* ChatInterface with the inserts of saveMessage that fail
NextChatStore ==
    \/ NextChat
    \/ \E i \in 1..MaxSends : SaveUserFail(i)
    \/ \E i \in 1..MaxSends : SaveAssistantFail(i)

SpecChatStore == InitChat /\ [][NextChatStore]_vars

\* ChatInterface of the revisions that pass onThinking to streamGeminiChat
NextChatThinking ==
    \/ NextChat
    \/ \E i \in 1..MaxSends, thinking \in BOOLEAN : OnThinking(i, thinking)

SpecChatThinking == InitChat /\ [][NextChatThinking]_vars

--------------------------------------------------------------------------
\* The handler of the proxy function gemini-chat and the client calling it

\* Bound of the model: the number of messages of a request.
MaxMessages == 3

\* the roles a message of a request comes with
Roles == {"user", "assistant", "system"}

\* the lists of messages of a request; the content of a message is its position
MessageLists ==
    UNION {{[i \in 1..n |-> [role |-> r[i], content |-> i]] : r \in [1..n -> Roles]} :
           n \in 0..MaxMessages}

\* the requests: a body that is not JSON, a body without messages, and the
\* bodies with a list of messages
RequestBodies ==
    {[readable |-> FALSE, hasMessages |-> FALSE, messages |-> <<>>],
     [readable |-> TRUE, hasMessages |-> FALSE, messages |-> <<>>]}
    \cup {[readable |-> TRUE, hasMessages |-> TRUE, messages |-> m] : m \in MessageLists}

\* messages.map(...): the role and the parts of every message
Contents(msgs) ==
    [i \in 1..Len(msgs) |->
        [role |-> IF msgs[i].role = "assistant" THEN "model" ELSE "user",
         parts |-> <<msgs[i].content>>]]

\* contents.slice(0, -1)
SliceButLast(contents) == SubSeq(contents, 1, Len(contents) - 1)

\* a variant of validHistory that does not look at the first entry
ValidHistoryUnchecked(contents) == SliceButLast(contents)

\* validHistory
ValidHistory(contents) ==
    LET h == SliceButLast(contents)
    IN  IF Len(h) > 0 /\ h[1].role = "user" THEN h ELSE NoContents

\* a variant of the catch block that answers with an event stream
ErrorResponseAsStream == [status |-> 200, contentType |-> "text/event-stream"]

\* the Response of the catch block
ErrorResponse == [status |-> 500, contentType |-> "application/json"]

\* the Response that carries the stream
StreamResponse == [status |-> 200, contentType |-> "text/event-stream"]

outsideServe == <<parserVars, proxyVars, chatVars, fileVars>>

\* the client is about to call the function; the handler waits for the request
InitServe ==
    /\ ClientOfProxy
    /\ reqBody \in RequestBodies
    /\ apiKey \in BOOLEAN
    /\ upstreamCall \in {"resolves", "rejects"}
    /\ servePc = "listening"
    /\ response = NoResponse
    /\ history = NoContents
    /\ sentParts = <<>>
    /\ NoParser /\ NoProxy /\ NoChat /\ NoFiles

\* the handler from req.json() to the call of sendMessageStream: an exception
\* on the way is caught by the catch block, which returns its Response
ServeReceive ==
    /\ servePc = "listening"
    /\ pc = "requesting"
    /\ IF ~reqBody.readable \/ ~apiKey \/ ~reqBody.hasMessages
       THEN /\ servePc' = "responded"
            /\ response' = ErrorResponse
            /\ UNCHANGED <<history, sentParts>>
       ELSE LET contents == Contents(reqBody.messages)
            IN  /\ history' = ValidHistory(contents)
                /\ IF Len(contents) = 0
                   THEN /\ servePc' = "responded"
                        /\ response' = ErrorResponse
                        /\ UNCHANGED sentParts
                   ELSE /\ servePc' = "awaitingUpstream"
                        /\ sentParts' = contents[Len(contents)].parts
                        /\ UNCHANGED response
    /\ UNCHANGED <<reqBody, apiKey, upstreamCall, clientVars, outsideServe>>

\* await chat.sendMessageStream(...) settles
ServeUpstream ==
    /\ servePc = "awaitingUpstream"
    /\ servePc' = "responded"
    /\ response' = IF upstreamCall = "resolves" THEN StreamResponse ELSE ErrorResponse
    /\ UNCHANGED <<reqBody, apiKey, upstreamCall, history, sentParts, clientVars, outsideServe>>

\* the Response reaches the client: fetch resolves with it
ServeDeliver ==
    /\ servePc = "responded"
    /\ FetchResolve(response.status, TRUE)

NextServe ==
    \/ Start
    \/ ServeReceive
    \/ ServeUpstream
    \/ ServeDeliver

SpecServe == InitServe /\ [][NextServe]_vars

--------------------------------------------------------------------------
\* The attachments of ChatInterface

\* Bound of the model: the number of files of one selection.
MaxSelection == 2

\* the most files that can be attached
MaxFiles == 10

\* maxSize, in MB
MaxSize == 20

\* the sizes of the files a user picks, in MB
FileSizes == {1, MaxSize, MaxSize + 1}

\* e.target.files: the selections of the file input
Selections == UNION {[1..n -> FileSizes] : n \in 1..MaxSelection}

\* validFiles
ValidFiles(files) == SelectSeq(files, LAMBDA size : ~(size > MaxSize))

\* prev.filter((_, i) => i !== index), index counted from 1
WithoutIndex(files, index) ==
    [i \in 1..(Len(files) - (IF index \in 1..Len(files) THEN 1 ELSE 0)) |->
        IF i < index THEN files[i] ELSE files[i + 1]]

outsideFiles == <<clientVars, parserVars, proxyVars, chatVars, serveVars>>

\* ChatInterface is mounted: useState([])
InitFiles ==
    /\ attachedFiles = <<>>
    /\ renderedFiles = <<>>
    /\ NoClient /\ NoParser /\ NoProxy /\ NoChat /\ NoServe

\* a variant of handleFileSelect that counts only the files of the selection
HandleFileSelectCountsSelection(files) ==
    /\ \A validFiles \in {ValidFiles(files)} :
          IF Len(validFiles) > MaxFiles
          THEN attachedFiles' = attachedFiles
          ELSE attachedFiles' = attachedFiles \o validFiles
    /\ renderedFiles' = attachedFiles'
    /\ UNCHANGED outsideFiles

\* handleFileSelect, the change event of the file input: it reads attachedFiles
\* of the render it was created in; the component is rendered again before the
\* next event
HandleFileSelect(files) ==
    /\ \A validFiles \in {ValidFiles(files)} :
          IF Len(renderedFiles) + Len(validFiles) > MaxFiles
          THEN attachedFiles' = attachedFiles
          ELSE attachedFiles' = attachedFiles \o validFiles
    /\ renderedFiles' = attachedFiles'
    /\ UNCHANGED outsideFiles

\* removeFile(index), the click on the button of a file that is shown
RemoveFile(index) ==
    /\ index \in 1..Len(renderedFiles)
    /\ attachedFiles' = WithoutIndex(attachedFiles, index)
    /\ renderedFiles' = attachedFiles'
    /\ UNCHANGED outsideFiles

\* handleSend reaches setAttachedFiles([]) after its awaits; the component is
\* rendered again later
HandleSendClearsFiles ==
    /\ attachedFiles' = <<>>
    /\ UNCHANGED <<renderedFiles, outsideFiles>>

\* the render scheduled by a state update made outside an event handler
Render ==
    /\ renderedFiles # attachedFiles
    /\ renderedFiles' = attachedFiles
    /\ UNCHANGED <<attachedFiles, outsideFiles>>

NextFiles ==
    \/ \E files \in Selections : HandleFileSelect(files)
    \/ \E index \in 1..MaxFiles : RemoveFile(index)
    \/ HandleSendClearsFiles
    \/ Render

SpecFiles == InitFiles /\ [][NextFiles]_vars

--------------------------------------------------------------------------
\* Vocabulary of the properties

\* how many times callback cb has been invoked
CountOf(evs, cb) == Cardinality({i \in 1..Len(evs) : evs[i].cb = cb})

\* the strings passed to onToken, in order
TokensOf(evs) ==
    LET sel == SelectSeq(evs, LAMBDA e : e.cb = "onToken")
    IN  [i \in 1..Len(sel) |-> sel[i].arg]

\* the callbacks other than onError, in order
NonErrorEvents(evs) == SelectSeq(evs, LAMBDA e : e.cb # "onError")

IsPrefixOf(a, b) == Len(a) <= Len(b) /\ SubSeq(b, 1, Len(a)) = a

\* the callbacks of the loop when the whole body arrives in one single read
SingleRead == LoopBody(<<>>, <<>>, stream).events

\* the text of the whole body
LogicalText == DecodeBytes(stream, 1)

\* the position of the last newline of text, 0 when it has none
LastNewline(text) ==
    IF \E i \in 1..Len(text) : text[i] = NL
    THEN CHOOSE i \in 1..Len(text) :
             text[i] = NL /\ \A j \in (i + 1)..Len(text) : text[j] # NL
    ELSE 0

\* the newline-terminated lines of text from position i on, the first of them
\* starting at position start
RECURSIVE LinesFrom(_, _, _)
LinesFrom(text, start, i) ==
    IF i > Len(text) THEN <<>>
    ELSE IF text[i] = NL
         THEN <<SubSeq(text, start, i - 1)>> \o LinesFrom(text, i + 1, i + 1)
         ELSE LinesFrom(text, start, i + 1)

\* the newline-terminated lines of text, without their newline
CompleteLines(text) == LinesFrom(text, 1, 1)

\* what follows the last newline of text
TrailingPartial(text) == SubSeq(text, LastNewline(text) + 1, Len(text))

\* C1: however the body is split into chunks, the tokens passed to onToken are
\* at every moment a prefix of, and at completion equal to, the tokens of a
\* single read of the whole body.
C1_ChunkSplitIndependence ==
    /\ IsPrefixOf(TokensOf(events), TokensOf(SingleRead))
    /\ pc = "completed" => TokensOf(events) = TokensOf(SingleRead)

\* a token was delivered and a later read ended in the middle of "data: "
C1_Witness ==
    /\ pc = "streaming"
    /\ buffer = <<"d", "a", "t">>
    /\ TokensOf(events) # <<>>

\* C2: when the signal is triggered while requesting or streaming, onError is
\* not invoked.
C2_AbortIsNotAnError == aborted => CountOf(events, "onError") = 0

C4_HttpErrorReportedOnce ==
    (status # 0 /\ status \notin 200..299) =>
        /\ pc = "errored"
        /\ events = <<[cb |-> "onError",
                       arg |-> "HTTP error! status: " \o ToString(status),
                       isError |-> TRUE]>>

\* the proxy answered 500
C4_Witness == status = 500 /\ pc = "errored"

\* a data line whose payload is an object with a non-empty text
HasText(line) ==
    /\ StartsWith(line, DataPrefix)
    /\ ValidJson(Slice(line, 6))
    /\ Truthy(Field(Slice(line, 6), "T"))

\* the text of every line of lines that has one, in order
TextsOf(lines) ==
    LET sel == SelectSeq(lines, HasText)
    IN  [i \in 1..Len(sel) |-> Field(Slice(sel[i], 6), "T")]

\* C5: at normal end, onToken was invoked once for each complete data line
\* with a non-empty text, in the order of the lines, and onComplete exactly
\* once, after every onToken.
C5_TokensInOrderThenComplete ==
    pc = "completed" =>
        /\ TokensOf(events) = TextsOf(CompleteLines(LogicalText))
        /\ CountOf(events, "onComplete") = 1
        /\ events[Len(events)].cb = "onComplete"

\* a body with two token lines was read to its end
C5_Witness == pc = "completed" /\ TokensOf(events) = <<"U+E9", "b">>

\* a data line whose payload JSON.parse rejects
IsMalformed(line) == StartsWith(line, DataPrefix) /\ ~ValidJson(Slice(line, 6))

\* the complete lines of the body without the malformed ones
WellFormedLines ==
    SelectSeq(CompleteLines(LogicalText), LAMBDA line : ~IsMalformed(line))

\* C6: a data line that is not valid JSON produces no event and does not end
\* the stream: no onError while the body is read, and at the end the callbacks
\* are those of the other lines, followed by onComplete.
C6_MalformedLineSkipped ==
    /\ pc \in {"streaming", "completed"} => CountOf(events, "onError") = 0
    /\ pc = "completed" =>
          events = ProcessLines(WellFormedLines) \o <<Event("onComplete", "void")>>

\* the first line of the body was malformed, a later one gave a token, and
\* the stream completed
C6_Witness ==
    /\ pc = "completed"
    /\ Len(CompleteLines(LogicalText)) >= 2
    /\ IsMalformed(CompleteLines(LogicalText)[1])
    /\ TokensOf(events) # <<>>

\* the buffer as the read that takes the reader from pos to pos' extends it
StepText == buffer \o Decode(decoder, SubSeq(stream, pos + 1, pos')).text

\* the lines among lines that start with "data: "
DataLinesOf(lines) == SelectSeq(lines, LAMBDA line : StartsWith(line, DataPrefix))

\* C7: the callbacks invoked for a chunk are those of its lines that start
\* with "data: "; the other lines cause none.
C7_OnlyDataLinesEmit ==
    [][(pc = "streaming" /\ pos' > pos) =>
          \A text \in {StepText} :
              events' = events \o ProcessLines(DataLinesOf(CompleteLines(text)))]_vars

\* a line "data:" without the space has been read, and a blank line, and no
\* callback has been invoked
C7_Witness ==
    /\ pc = "streaming"
    /\ SubSeq(stream, 1, pos) = LineOf("noSpace") \o <<NL, NL>>
    /\ events = <<>>

IsTerminal(e) == e.cb \in {"onComplete", "onError"}

\* onComplete and onError: at most one of them, at most once, and last
TerminalDiscipline(evs) ==
    /\ CountOf(evs, "onComplete") + CountOf(evs, "onError") <= 1
    /\ \A i \in 1..Len(evs) : IsTerminal(evs[i]) => i = Len(evs)

StateMachine ==
    {<<"idle", "requesting">>, <<"requesting", "requesting">>,
     <<"requesting", "streaming">>, <<"requesting", "errored">>,
     <<"streaming", "streaming">>, <<"streaming", "completed">>,
     <<"streaming", "errored">>}

\* C8: an invocation goes idle -> requesting -> streaming -> one terminal
\* state; onComplete and onError are each invoked at most once, never both,
\* and nothing is invoked after either.
C8_OneTerminalCallback ==
    [][/\ <<pc, pc'>> \in StateMachine
       /\ TerminalDiscipline(events')
       /\ pc' = "completed" <=> CountOf(events', "onComplete") = 1
       /\ pc' = "errored" <=> CountOf(events', "onError") = 1]_vars

\* an invocation that streamed events and completed
C8_Witness == pc = "completed" /\ Len(events) >= 3

\* C9: a failed request, a missing body or a failed read gives exactly one
\* onError with an Error (the thrown one, or a generic one in place of a value
\* that is no Error) and no onComplete.
C9_FailureReportedOnce ==
    pc = "errored" =>
        /\ CountOf(events, "onError") = 1
        /\ CountOf(events, "onComplete") = 0
        /\ events[Len(events)] =
              [cb |-> "onError",
               arg |-> IF thrown.isError THEN thrown.message
                       ELSE "Unknown error occurred",
               isError |-> TRUE]

\* a read threw a value that is no Error after a token was delivered
C9_Witness ==
    /\ pc = "errored"
    /\ ~thrown.isError
    /\ pos > 0
    /\ TokensOf(events) # <<>>

\* the bytes of the body up to its last newline
StreamWithoutTail == SubSeq(stream, 1, LastNewline(stream))

\* C10: at done, what is left after the last newline is not parsed: the
\* callbacks are those of the body without that remainder, then onComplete.
C10_TrailingPartialDiscarded ==
    pc = "completed" =>
        /\ buffer = TrailingPartial(LogicalText)
        /\ events = LoopBody(<<>>, <<>>, StreamWithoutTail).events
                        \o <<Event("onComplete", "void")>>

\* the body ended with a whole data line that lacks its newline
C10_Witness ==
    /\ pc = "completed"
    /\ buffer = DecodeBytes(LineOf("tokU"), 1)

--------------------------------------------------------------------------
\* C11: after each chunk the buffer holds no newline and is exactly the text
\* received since the last newline, and every complete line before it has
\* been processed exactly once, in order.
C11_ResidualBuffer ==
    pc \in {"streaming", "completed"} =>
        \A text \in {DecodeBytes(SubSeq(stream, 1, pos), 1)} :
            /\ \A i \in 1..Len(buffer) : buffer[i] # NL
            /\ buffer = TrailingPartial(text)
            /\ NonErrorEvents(events) =
                   ProcessLines(CompleteLines(text))
                   \o (IF pc = "completed" THEN <<Event("onComplete", "void")>> ELSE <<>>)

C11_Witness ==
    /\ pc = "streaming"
    /\ 0 < pos /\ pos < Len(stream)
    /\ buffer # <<>>
    /\ Len(CompleteLines(DecodeBytes(SubSeq(stream, 1, pos), 1))) = 2
    /\ events # <<>>

\* the payloads of the data lines among lines that JSON.parse accepts
PayloadsOf(lines) ==
    LET sel == SelectSeq(lines, LAMBDA line : StartsWith(line, DataPrefix)
                                               /\ ValidJson(Slice(line, 6)))
    IN  [i \in 1..Len(sel) |-> Slice(sel[i], 6)]

\* the arguments of the invocations of callback cb among evs, in order
ArgsOf(evs, cb) ==
    LET sel == SelectSeq(evs, LAMBDA e : e.cb = cb)
    IN  [i \in 1..Len(sel) |-> sel[i].arg]

\* C12: onThinking, when passed, is invoked with the value of every thinking
\* field that is true or false, in order, and for no other value of thinking;
\* onToken is invoked for the texts that are not the empty string only.
C12_ThinkingBooleanOnly ==
    pc \in {"streaming", "completed"} =>
        \A payloads \in {PayloadsOf(CompleteLines(DecodeBytes(SubSeq(stream, 1, pos), 1)))} :
            LET thinking == SelectSeq([i \in 1..Len(payloads) |-> Field(payloads[i], "K")],
                                      LAMBDA v : v \in {"t", "f"})
                texts    == SelectSeq([i \in 1..Len(payloads) |-> Field(payloads[i], "T")],
                                      LAMBDA v : v \notin {"undefined", "Q"})
            IN  /\ ArgsOf(events, "onThinking") =
                      (IF "onThinking" \in handlers THEN thinking ELSE <<>>)
                /\ ArgsOf(events, "onToken") = texts

C12_Witness ==
    /\ pc = "completed"
    /\ stream = BodyOf(<<"thinkF", "odd">>)
    /\ events = <<Event("onThinking", "f"), Event("onToken", "b"), Event("onComplete", "void")>>

\* C13: one invocation issues at most one HTTP request; after a failure it
\* has terminated with the error and has not sent the request again.
C13_SingleRequest ==
    /\ requests = (IF pc = "idle" THEN 0 ELSE 1)
    /\ thrown # NotThrown => pc = "errored" /\ requests = 1

C13_Witness ==
    /\ pc = "errored"
    /\ status = 500
    /\ requests = 1

\* the positions of the events of kind kind among evs
PositionsOf(evs, kind) == {i \in 1..Len(evs) : evs[i].kind = kind}

\* the callbacks of the client that reads the events evs, one chunk for each
\* enqueue of the proxy, with buf in its buffer and held in its decoder
RECURSIVE ReadEvents(_, _, _)
ReadEvents(evs, buf, held) ==
    IF evs = <<>> THEN <<>>
    ELSE LET r == LoopBody(buf, held, EncodeEvent(Head(evs)))
         IN  r.events \o ReadEvents(Tail(evs), r.buffer, r.held)

\* the callbacks of the client that has read the response body so far
ClientEventsOf(evs) == ReadEvents(evs, <<>>, <<>>)

\* C15: the proxy writes at most one metadata event, after every text event
\* and only when the upstream stream and its response ended without error;
\* the client reading the body invokes onMetadata at most once and no onToken
\* after it.
C15_MetadataOnceAtEnd ==
    /\ Cardinality(PositionsOf(out, "metadata")) <= 1
    /\ \A i \in PositionsOf(out, "metadata") :
          /\ \A j \in PositionsOf(out, "text") : j < i
          /\ Cardinality(PositionsOf(out, "text")) =
                Cardinality({k \in 1..Len(upstream) : upstream[k] # "Q"})
          /\ proxyPc = "closed" /\ upstreamEnd = "ok" /\ responseOutcome = "usage"
    /\ \A evs \in {ClientEventsOf(out)} :
          /\ CountOf(evs, "onMetadata") = Cardinality(PositionsOf(out, "metadata"))
          /\ \A i, j \in 1..Len(evs) :
                evs[i].cb = "onMetadata" /\ evs[j].cb = "onToken" => j < i

C15_Witness ==
    /\ proxyPc = "closed"
    /\ Cardinality(PositionsOf(out, "text")) = 2
    /\ LET evs == ClientEventsOf(out)
       IN  /\ CountOf(evs, "onToken") = 2
           /\ evs[Len(evs)] = Event("onMetadata", "o")

\* the entries of the Map whose trigger occurs in the prompt, in Map order
Matched == SelectSeq(commands, LAMBDA entry : Includes(prompt, entry.trigger))

\* C16: with the default command registered, a prompt that contains /web is
\* parsed to useWebSearch = true and a cleanedPrompt in which /web no longer
\* occurs.
C16_WebTriggerStripped ==
    (lastOp = "parse" /\ commands = <<DefaultCommand>> /\ Includes(prompt, Web)) =>
        /\ "useWebSearch" \in DOMAIN result.options
        /\ result.options["useWebSearch"] = TRUE
        /\ ~Includes(result.cleanedPrompt, Web)

\* C17: the cleanedPrompt parse returns contains none of the triggers that
\* matched the prompt.
C17_EveryMatchedTriggerStripped ==
    (lastOp = "parse" /\ Len(Matched) >= 2) =>
        \A i \in 1..Len(Matched) : ~Includes(result.cleanedPrompt, Matched[i].trigger)

\* C18: the options parse returns are the merge of the matched commands'
\* options in Map order: a key no matched command sets is absent, every other
\* key has the value of the last matched command that sets it.
C18_OptionsMergedInOrder ==
    lastOp = "parse" =>
        \A key \in {"useWebSearch", "thinking", "terse"} :
            LET setters == {i \in 1..Len(Matched) : key \in DOMAIN Matched[i].command.options}
            IN  IF setters = {}
                THEN key \notin DOMAIN result.options
                ELSE /\ key \in DOMAIN result.options
                     /\ \E last \in setters :
                           /\ \A i \in setters : i <= last
                           /\ result.options[key] = Matched[last].command.options[key]

C18_Witness ==
    /\ lastOp = "parse"
    /\ Len(Matched) = 3
    /\ Matched[2].command.name = "terse"
    /\ Matched[3].command.name = "think"
    /\ result.options = Merge(Option("useWebSearch", TRUE),
                              Merge(Option("thinking", TRUE), Option("terse", TRUE)))

\* C19: parse of a prompt in which no registered trigger occurs returns the
\* prompt itself, untrimmed, and empty options; and no call of parse changes
\* the registered commands.
C19_NoTriggerNoChange ==
    /\ [](lastOp = "parse" /\ Matched = <<>> =>
             result = [cleanedPrompt |-> prompt, options |-> EmptyOptions])
    /\ [][lastOp' = "parse" => commands' = commands]_vars

C19_Witness ==
    /\ lastOp = "parse"
    /\ Len(commands) = 3
    /\ Matched = <<>>
    /\ prompt = <<" ", "x", " ">>
    /\ result.cleanedPrompt = <<" ", "x", " ">>

\* C14: the transcript only grows by appending: every message keeps its
\* position, role and content.
C14_TranscriptAppendOnly == [][IsPrefixOf(messages, messages')]_vars

\* the calls of handleSend that have not reached their terminal callback
InFlight == {i \in 1..MaxSends : sends[i].pc \in {"creatingSession", "savingUser", "streaming"}}

\* C20: at most one call of handleSend is between its guard and its terminal
\* callback.
C20_OneExchangeInFlight == Cardinality(InFlight) <= 1

\* the positions of the thinking events with value value among evs
ThinkingAt(evs, value) == {i \in PositionsOf(evs, "thinking") : evs[i].value = value}

\* C27: thinking: true is written at most once and right before the text of
\* the chunk that set it off; thinking: false is written, once, exactly in the
\* responses in which thinking: true was written, after the last text event
\* and before the metadata event and the end of the response.
C27_ThinkingBracketed ==
    /\ Cardinality(ThinkingAt(out, "t")) <= 1
    /\ Cardinality(ThinkingAt(out, "f")) <= 1
    /\ \A i \in ThinkingAt(out, "t") : i < Len(out) /\ out[i + 1] = TextEvent("...")
    /\ \A j \in ThinkingAt(out, "f") :
          /\ \E i \in ThinkingAt(out, "t") : i < j
          /\ \A k \in PositionsOf(out, "text") : k < j
          /\ \A m \in PositionsOf(out, "metadata") : j < m
    /\ proxyPc \in {"closed", "errored"} =>
          (ThinkingAt(out, "t") # {} <=> ThinkingAt(out, "f") # {})

\* the handler has called sendMessageStream
PromptSent == servePc = "awaitingUpstream" \/ (servePc = "responded" /\ sentParts # <<>>)

\* all messages of the request but the last, in the form given to startChat
AllButLast(msgs) ==
    [i \in 1..(Len(msgs) - 1) |->
        [role |-> IF msgs[i].role = "assistant" THEN "model" ELSE "user",
         parts |-> <<msgs[i].content>>]]

\* C28 as stated: the history given upstream is empty or begins with a user
\* entry; it is all messages but the last when the first message is a user
\* message and empty otherwise; the last message is sent as the prompt; every
\* role other than assistant is mapped to user.
C28_HistoryWhenFirstIsUser ==
    PromptSent =>
        LET msgs == reqBody.messages
        IN  /\ history = <<>> \/ history[1].role = "user"
            /\ history = IF msgs[1].role = "user" THEN AllButLast(msgs) ELSE <<>>
            /\ sentParts = <<msgs[Len(msgs)].content>>
            /\ \A i \in 1..Len(history) :
                  history[i].role = IF msgs[i].role = "assistant" THEN "model" ELSE "user"

\* C28, amended: the history given upstream is empty or begins with a user
\* entry; it is all messages but the last when the role of the first message
\* is not assistant (a role such as system counts as user) and empty
\* otherwise; the last message is sent as the prompt; every role other than
\* assistant is mapped to user.
C28_HistoryWhenFirstIsNotAssistant ==
    PromptSent =>
        LET msgs == reqBody.messages
        IN  /\ history = <<>> \/ history[1].role = "user"
            /\ history = IF msgs[1].role # "assistant" THEN AllButLast(msgs) ELSE <<>>
            /\ sentParts = <<msgs[Len(msgs)].content>>
            /\ \A i \in 1..Len(history) :
                  history[i].role = IF msgs[i].role = "assistant" THEN "model" ELSE "user"

\* a request whose first message has the role system and whose history of two
\* entries has been given upstream
C28_Witness ==
    /\ PromptSent
    /\ reqBody.messages[1].role = "system"
    /\ Len(history) = 2
    /\ history[2].role = "model"

\* one of the failures before the streaming response
FailsBeforeStream ==
    \/ ~reqBody.readable
    \/ ~apiKey
    \/ ~reqBody.hasMessages
    \/ reqBody.messages = <<>>
    \/ upstreamCall = "rejects"

\* C29: when the API key is missing, the body is unreadable, the list of
\* messages is missing or empty, or the upstream call is rejected, the handler
\* answers with status 500 and a JSON body, never with an event stream, and the
\* client reports exactly one error and no token.
C29_FailureIsJson500 ==
    FailsBeforeStream =>
        /\ response \in {NoResponse, [status |-> 500, contentType |-> "application/json"]}
        /\ servePc = "responded" => response # NoResponse
        /\ pc \in {"idle", "requesting", "errored"}
        /\ CountOf(events, "onToken") = 0
        /\ pc = "errored" => events = <<ErrorEvent(HttpErrorMessage(500))>>
        /\ pc # "errored" => events = <<>>

\* the upstream call was rejected and the client has reported the error
C29_Witness ==
    /\ upstreamCall = "rejects"
    /\ apiKey /\ reqBody.messages # <<>>
    /\ servePc = "responded"
    /\ pc = "errored"
    /\ Len(events) = 1

\* C30: whatever handleFileSelect, removeFile and handleSend do in whatever
\* order, at most ten files are attached and none is larger than 20 MB; the
\* list grows only by all the files of one selection that are not oversized,
\* in their order, so a selection that would take the count above ten adds
\* none of its files and an oversized file is dropped without the others.
C30_AttachmentLimits ==
    /\ [](/\ Len(attachedFiles) <= MaxFiles
          /\ \A i \in 1..Len(attachedFiles) : attachedFiles[i] <= MaxSize)
    /\ [][Len(attachedFiles') > Len(attachedFiles) =>
             \E files \in Selections :
                 attachedFiles' = attachedFiles \o SelectSeq(files, LAMBDA size : size <= MaxSize)]_vars

\* ten files are attached, one of them of exactly 20 MB
C30_Witness ==
    /\ Len(attachedFiles) = MaxFiles
    /\ renderedFiles = attachedFiles
    /\ \E i \in 1..Len(attachedFiles) : attachedFiles[i] = MaxSize

\* C21: in every state in which isStreaming is true, handleStop has a
\* controller to abort: it aborts the request of the exchange and sets
\* isStreaming to false, so there is no state in which isStreaming is true and
\* handleStop does nothing.
C21_StopAlwaysActs == isStreaming => abortControllerRef # 0

\* call i takes the step onComplete
Completes(i) == sends[i].pc = "streaming" /\ sends'[i].pc = "savingAssistant"

\* C22: when an exchange completes, one assistant message is appended to the
\* transcript, right after the user message of that exchange, with the tokens
\* of onToken in their order as its content; the preview is cleared and
\* isStreaming becomes false.
C22_CompletionAppendsAfterUser ==
    [][\A i \in 1..MaxSends :
          Completes(i) =>
              /\ Len(messages) >= 1
              /\ messages[Len(messages)] = UserMessage(sends[i].userContent)
              /\ messages' = Append(messages, AssistantMessage(sends[i].assistantResponse))
              /\ currentAssistantMessage' = <<>>
              /\ ~isStreaming']_vars

\* a row is added to the rows of session s in this step
RowAdded(s) == Len(dbMessages'[s]) > Len(dbMessages[s])

\* C23: the request of an exchange is issued in a step that finds or leaves the
\* user message of the exchange as the last row written to its session; an
\* assistant row is written only by an exchange whose onComplete has run, with
\* its response; an exchange that ends by error or by Stop changes neither the
\* rows nor the transcript.
C23_StoreOrder ==
    [][\A i \in 1..MaxSends :
          /\ (sends[i].pc # "streaming" /\ sends'[i].pc = "streaming") =>
                \A s \in {sends[i].currentSessionId} :
                    /\ dbMessages'[s] # <<>>
                    /\ dbMessages'[s][Len(dbMessages'[s])] = UserMessage(sends[i].userContent)
          /\ \A s \in 1..MaxSends :
                (RowAdded(s) /\ dbMessages'[s][Len(dbMessages'[s])].role = "assistant") =>
                    \E j \in 1..MaxSends :
                        /\ sends[j].pc = "savingAssistant"
                        /\ sends[j].currentSessionId = s
                        /\ dbMessages'[s] = Append(dbMessages[s], AssistantMessage(sends[j].assistantResponse))
          /\ (sends[i].pc = "streaming" /\ sends'[i].pc = "returned") =>
                messages' = messages /\ dbMessages' = dbMessages]_vars

\* C24: the function name-chat is invoked at most once for a session, and only
\* by an exchange that was sent with an empty transcript and has completed, in
\* the step that has its assistant message saved.
C24_NameOncePerSession ==
    /\ [](\A s \in 1..MaxSends : nameRequests[s] <= 1)
    /\ [][nameRequests' # nameRequests =>
             \E i \in 1..MaxSends :
                 /\ sends[i].pc = "savingAssistant"
                 /\ sends[i].isFirstMessage
                 /\ nameRequests' = [nameRequests EXCEPT ![sends[i].currentSessionId] = @ + 1]
                 /\ dbMessages'[sends[i].currentSessionId] =
                        Append(dbMessages[sends[i].currentSessionId],
                               AssistantMessage(sends[i].assistantResponse))]_vars

\* C25: a call of handleSend that has no session changes nothing up to its
\* await of createSession, and when createSession fails it returns and leaves
\* the transcript, the input, the attachments, isStreaming, the rows of the
\* store and the controller as they are: no message is saved, no request made.
C25_FailedSessionChangesNothing ==
    [][\A i \in 1..MaxSends :
          (sends'[i] # sends[i] /\
           (sends'[i].pc = "creatingSession" \/
            (sends[i].pc = "creatingSession" /\ sends'[i].pc = "returned"))) =>
              /\ messages' = messages
              /\ input' = input
              /\ attachedFiles' = attachedFiles
              /\ isStreaming' = isStreaming
              /\ currentAssistantMessage' = currentAssistantMessage
              /\ dbMessages' = dbMessages
              /\ dbSessions' = dbSessions
              /\ abortControllerRef' = abortControllerRef
              /\ requests' = requests]_vars

\* the first call of handleSend has returned with no session created, and the
\* text is still in the input
C25_Witness ==
    /\ sends[1].pc = "returned"
    /\ dbSessions = 0
    /\ input # <<>>
    /\ messages = <<>>
    /\ ~isStreaming

\* C26: when no exchange is running (each has ended by completion, error or
\* Stop, or has not started), isThinking is false.
C26_ThinkingOffWhenIdle ==
    (\A i \in 1..MaxSends : sends[i].pc \notin {"savingUser", "streaming"}) => ~uiIsThinking

====
